---- MODULE Spec2Model ----
(***************************************************************************)
(* A model of the DQN agent of src/dqn.py: the eval and target networks,   *)
(* epsilon-greedy action selection, the learning step with its periodic    *)
(* hard target synchronisation and additive epsilon decay, and the         *)
(* checkpoint save / load of the eval network.                             *)
(*                                                                         *)
(* Real numbers are fixed-point integers: epsilon, eps_min and eps_dec are *)
(* counted in halves (2 is 1.0), and a uniform draw in [0,1) is 0 or 1     *)
(* (0.0 or 0.5).  Network weights are small integers, and the forward pass *)
(* is computed as the code computes it (linear, relu, linear).  The        *)
(* optimizer step is over-approximated: it may leave the eval network with *)
(* any parameter set of the modelled family.                               *)
(***************************************************************************)
EXTENDS Integers, Sequences, FiniteSets

\* ---------------------------------------------------------------- bounds
MaxEps == 2           \* largest initial epsilon, in halves
MaxUpdates == 3       \* cap on eval_net_update_times
MaxBatch == 2         \* longest batch handed to choose_action / learn
NumParams == 2        \* size of the modelled family of parameter sets
target_replace_iter == 2   \* learn calls between two target syncs

EpsMinValues == 0 .. 1        \* eps_min, in halves
EpsDecValues == 1 .. 2        \* eps_dec (> 0), in halves
StateValues == <<(<<0, 1>>), (<<1, 0>>)>>   \* (time_slice, grid_id) inputs

\* ------------------------------------------------------- configuration
BATCH_SIZE == 2       \* the global of config.py read by learn
NumActions == 2       \* len(action_space)
Actions == 0 .. (NumActions - 1)

NoFile == <<>>        \* no checkpoint at the path

VARIABLES
    epsilon, eps_min, eps_dec,                       \* DqnAgent fields
    eval_net_update_times,                           \* the update counter
    eval_net, target_net,                            \* the two parameter sets
    loss_values,                                     \* loss history
    file,                                            \* the checkpoint file
    lastCall, lastStates, result,                    \* the last call and its return
    snap,                                            \* last copy source of target
    saved                                            \* eval as it was at the last save

agentVars == <<epsilon, eps_min, eps_dec,
               eval_net_update_times, eval_net, target_net, loss_values>>
vars == <<epsilon, eps_min, eps_dec,
          eval_net_update_times, eval_net, target_net, loss_values,
          file, lastCall, lastStates, result, snap, saved>>

\* ---------------------------------------------------------- DqnNetwork
\* One hidden layer of width 1: layers.0 is Linear(2, 1), out is Linear(1, n).
\* The k-th parameter set of the modelled family.
DqnNetwork(k) ==
    [lw |-> <<k, 1 - k>>,
     lb |-> 0,
     ow |-> [a \in 1 .. NumActions |-> a - 1],
     ob |-> [a \in 1 .. NumActions |-> (k % 2) * (NumActions - a)]]

Params == {DqnNetwork(k) : k \in 1 .. NumParams}

relu(x) == IF x > 0 THEN x ELSE 0

\* forward: the Q-values of one state, a sequence indexed by action + 1
forward(p, s) ==
    LET x == relu(p.lw[1] * s[1] + p.lw[2] * s[2] + p.lb)
    IN  [a \in 1 .. NumActions |-> p.ow[a] * x + p.ob[a]]

\* torch.argmax over one row: the index of the first maximal value
argmax(q) ==
    CHOOSE a \in Actions :
        /\ \A b \in Actions : q[b + 1] <= q[a + 1]
        /\ \A b \in Actions : b < a => q[b + 1] < q[a + 1]

Greedy(p, states) == [i \in 1 .. Len(states) |-> argmax(forward(p, states[i]))]

\* state_dict: the named tensors of a network, each as its flat storage
state_dict(p) ==
    << [name |-> "layers.0.weight", data |-> p.lw],
       [name |-> "layers.0.bias", data |-> <<p.lb>>],
       [name |-> "out.weight", data |-> [a \in 1 .. NumActions |-> p.ow[a]]],
       [name |-> "out.bias", data |-> [a \in 1 .. NumActions |-> p.ob[a]]] >>

Tensor(sd, key) == (CHOOSE i \in 1 .. Len(sd) : sd[i].name = key)

\* load_state_dict: every parameter is looked up by its name
load_state_dict(sd) ==
    [lw |-> sd[Tensor(sd, "layers.0.weight")].data,
     lb |-> sd[Tensor(sd, "layers.0.bias")].data[1],
     ow |-> sd[Tensor(sd, "out.weight")].data,
     ob |-> sd[Tensor(sd, "out.bias")].data]

\* ------------------------------------------------------------- helpers
\* np.random.random(n): n draws in [0,1)
Draws == 0 .. 1

\* mutant: the comparison is <= instead of <
Explorers_le(draws, eps) == {i \in DOMAIN draws : draws[i] <= eps}

\* np.random.random(n) < self.epsilon: the rows that explore
Explorers(draws, eps) == {i \in DOMAIN draws : draws[i] < eps}

\* mutant: the upper end is included
RandInt_inclusive(n) == 0 .. n

\* np.random.randint(self.num_actions, ...): the values one draw may take
RandInt(n) == 0 .. (n - 1)

\* action_indices[explorers] = <random actions>: the k-th exploring row takes
\* the k-th random action, the other rows keep the greedy choice
Override(greedy, ex, rnd) ==
    [i \in 1 .. Len(greedy) |->
        IF i \in ex THEN rnd[Cardinality({j \in ex : j <= i})] ELSE greedy[i]]

\* mutant: the sync fires one call early
SyncDue_offByOne(counter, iter) == (counter + 1) % iter = 0

\* mutant: the target network is never synchronised
SyncDue_never(counter, iter) == FALSE

\* self.eval_net_update_times % self.target_replace_iter == 0
SyncDue(counter, iter) == counter % iter = 0

\* eval_net(state_batch)[np.arange(BATCH_SIZE), action_batch]: the two index
\* arrays (lengths BATCH_SIZE and B) must broadcast, and every row index
\* 0 .. BATCH_SIZE-1 must be a row of the B-row output
RowSelectFails(B) ==
    \/ (B # BATCH_SIZE /\ B # 1 /\ BATCH_SIZE # 1)
    \/ BATCH_SIZE > B

\* mutant: no reset to the floor
EpsilonDecay_noFloor(eps, min, dec) == IF eps > min THEN eps - dec ELSE eps

\* self.epsilon - self.eps_dec if self.epsilon > self.eps_min else self.eps_min
EpsilonDecay(eps, min, dec) == IF eps > min THEN eps - dec ELSE min

\* loss.backward(); optimizer.step(): the parameter sets the step may leave
OptimizerStep(p) == Params

\* mutant: the target network is written instead
SavedNet_target(ev, tg) == tg

\* which network save_parameters writes
SavedNet(ev, tg) == ev

\* ---------------------------------------------------------------- Init
\* DqnAgent.__init__: two independently initialised networks
Init ==
    /\ epsilon \in 0 .. MaxEps
    /\ eps_min \in EpsMinValues
    /\ eps_dec \in EpsDecValues
    /\ eval_net_update_times = 0
    /\ eval_net \in Params
    /\ target_net \in Params
    /\ loss_values = <<>>
    /\ file = NoFile
    /\ lastCall = "__init__"
    /\ lastStates = <<>>
    /\ result = <<>>
    /\ snap = [kind |-> "none", val |-> target_net]
    /\ saved = [own |-> FALSE, eval |-> <<>>]

\* DqnAgent.__init__ once more: a fresh agent with the same hyperparameters
\* replaces the live one; the checkpoint file stays on disk.  (With no
\* checkpoint on disk the fresh agent is one of the initial states.)
Construct ==
    /\ file # NoFile
    /\ epsilon' \in 0 .. MaxEps
    /\ eval_net_update_times' = 0
    /\ eval_net' \in Params
    /\ target_net' \in Params
    /\ loss_values' = <<>>
    /\ lastCall' = "__init__"
    /\ lastStates' = <<>>
    /\ result' = <<>>
    /\ snap' = [kind |-> "none", val |-> target_net']
    /\ saved' = [saved EXCEPT !.own = FALSE]
    /\ UNCHANGED <<eps_min, eps_dec, file>>

\* ------------------------------------------------------- choose_action
\* mutant: the call also decays epsilon
choose_action_decaying(states) ==
    \E draws \in [1 .. Len(states) -> Draws] :
      \E rnd \in [1 .. Cardinality(Explorers(draws, epsilon)) -> RandInt(NumActions)] :
        /\ result' = Override(Greedy(eval_net, states), Explorers(draws, epsilon), rnd)
        /\ lastStates' = states
        /\ lastCall' = "choose_action"
        /\ epsilon' = EpsilonDecay(epsilon, eps_min, eps_dec)
        /\ UNCHANGED <<eps_min, eps_dec, eval_net_update_times, eval_net,
                       target_net, loss_values, file, snap, saved>>

choose_action(states) ==
    LET n == Len(states)
        action_indices == Greedy(eval_net, states)
    IN  \E draws \in [1 .. n -> Draws] :
          LET explorers == Explorers(draws, epsilon)
          IN  \E rnd \in [1 .. Cardinality(explorers) -> RandInt(NumActions)] :
                /\ result' = Override(action_indices, explorers, rnd)
                /\ lastStates' = states
                /\ lastCall' = "choose_action"
                /\ UNCHANGED <<agentVars, file, snap, saved>>

\* --------------------------------------------------------------- learn
\* mutant: the row selection runs before the target sync
learn_selectFirst(B) ==
    /\ lastStates' = <<>>
    /\ result' = <<>>
    /\ UNCHANGED <<eps_min, eps_dec, file, saved>>
    /\ IF RowSelectFails(B)
       THEN /\ lastCall' = "learn_failed"
            /\ UNCHANGED <<epsilon, eval_net_update_times, eval_net, target_net,
                           loss_values, snap>>
       ELSE /\ eval_net_update_times < MaxUpdates
            /\ lastCall' = "learn"
            /\ target_net' = IF SyncDue(eval_net_update_times, target_replace_iter)
                             THEN eval_net ELSE target_net
            /\ snap' = IF eval_net_update_times % target_replace_iter = 0
                       THEN [kind |-> "sync", val |-> eval_net] ELSE snap
            /\ loss_values' = Append(loss_values, eval_net_update_times)
            /\ eval_net' \in OptimizerStep(eval_net)
            /\ epsilon' = EpsilonDecay(epsilon, eps_min, eps_dec)
            /\ eval_net_update_times' = eval_net_update_times + 1

\* B is the length of the supplied batch
learn(B) ==
    LET synced == IF SyncDue(eval_net_update_times, target_replace_iter)
                  THEN eval_net ELSE target_net
        entrySnap == IF eval_net_update_times % target_replace_iter = 0
                     THEN [kind |-> "sync", val |-> eval_net] ELSE snap
    IN  /\ target_net' = synced
        /\ snap' = entrySnap
        /\ lastStates' = <<>>
        /\ result' = <<>>
        /\ UNCHANGED <<eps_min, eps_dec, file, saved>>
        /\ IF RowSelectFails(B)
           THEN /\ lastCall' = "learn_failed"
                /\ UNCHANGED <<epsilon, eval_net_update_times, eval_net,
                               loss_values>>
           ELSE /\ eval_net_update_times < MaxUpdates
                /\ lastCall' = "learn"
                /\ loss_values' = Append(loss_values, eval_net_update_times)
                /\ eval_net' \in OptimizerStep(eval_net)
                /\ epsilon' = EpsilonDecay(epsilon, eps_min, eps_dec)
                /\ eval_net_update_times' = eval_net_update_times + 1

\* ----------------------------------------------------- save_parameters
save_parameters ==
    /\ file' = state_dict(SavedNet(eval_net, target_net))
    /\ saved' = [own |-> TRUE, eval |-> eval_net]
    /\ lastCall' = "save_parameters"
    /\ lastStates' = <<>>
    /\ result' = <<>>
    /\ UNCHANGED <<agentVars, snap>>

\* ----------------------------------------------------- load_parameters
load_parameters ==
    /\ lastStates' = <<>>
    /\ result' = <<>>
    /\ UNCHANGED <<epsilon, eps_min, eps_dec,
                   eval_net_update_times, loss_values, file, saved>>
    /\ IF file = NoFile
       THEN /\ lastCall' = "load_failed"
            /\ UNCHANGED <<eval_net, target_net, snap>>
       ELSE /\ lastCall' = "load_parameters"
            /\ eval_net' = load_state_dict(file)
            /\ target_net' = load_state_dict(file)
            /\ snap' = [kind |-> "load", val |-> eval_net']

\* ------------------------------------------------------ specifications
\* the batches handed to choose_action: the inputs in turn, one batch of
\* every length
Batches ==
    {[i \in 1 .. n |-> StateValues[(i % Len(StateValues)) + 1]] : n \in 1 .. MaxBatch}

\* one agent's lifetime
NextLife ==
    \/ \E states \in Batches : choose_action(states)
    \/ \E B \in 1 .. MaxBatch : learn(B)
    \/ save_parameters
    \/ load_parameters

Next ==
    \/ NextLife
    \/ Construct

Spec == Init /\ [][Next]_vars

\* the caller keeps calling learn with batches of the configured size
LiveSpec == Init /\ [][NextLife]_vars /\ WF_vars(learn(BATCH_SIZE))

TypeOK ==
    /\ eval_net \in Params
    /\ target_net \in Params
    /\ eval_net_update_times \in 0 .. MaxUpdates
    /\ Len(loss_values) = eval_net_update_times

\* ---------------------------------------------------------------- claims

\* C1: after every learn call epsilon is at least eps_min (the additive decay
\* is floored at eps_min and never undershoots it).
C1_EpsilonFloor == eval_net_update_times > 0 => epsilon >= eps_min

\* C2: epsilon is non-increasing: no learn call leaves epsilon larger than it
\* found it, also when epsilon starts at or below eps_min.
C2_EpsilonNonIncreasing == [][lastCall' = "learn" => epsilon' <= epsilon]_vars

\* C3: a learn call overwrites the target parameters with the eval parameters
\* it was entered with exactly when it is entered with the update counter a
\* multiple of target_replace_iter, and leaves them alone otherwise; so until
\* anything but learn copies into the target network, the target parameters
\* are the eval snapshot taken at the latest sync call.
C3_TargetSync ==
    [][ /\ lastCall' \in {"learn", "learn_failed"} =>
             target_net' = IF eval_net_update_times % target_replace_iter = 0
                           THEN eval_net ELSE target_net
        /\ snap'.kind = "sync" => target_net' = snap'.val ]_vars

W3_SecondSync ==
    /\ lastCall = "learn"
    /\ eval_net_update_times = target_replace_iter + 1
    /\ snap.kind = "sync"
    /\ target_net # eval_net

\* C4 as stated: in every reachable state the target parameters are a copy of
\* the eval parameters as they were at an update-counter value that is a
\* multiple of the sync interval.  (Before the first sync or load the eval
\* network has only ever held its initial parameters, at counter 0; a load at
\* a counter that is no multiple is a copy taken at no multiple.)
C4_TargetCopiedAtMultiple ==
    CASE snap.kind = "sync" -> target_net = snap.val
      [] snap.kind = "none" -> target_net = eval_net
      [] snap.kind = "load" -> /\ target_net = snap.val
                               /\ eval_net_update_times % target_replace_iter = 0

\* C4 as amended: until the first learn call or load the target parameters
\* are the target network's own initialisation (and the counter is 0); from
\* then on they are a verbatim copy of the eval parameters taken at the
\* latest target sync or load_parameters, whichever came last.  The optimizer
\* step never changes them.
C4_TargetIsCopy ==
    /\ target_net = snap.val
    /\ snap.kind = "none" => eval_net_update_times = 0
    /\ eval_net_update_times > 0 => snap.kind \in {"sync", "load"}

W4_LoadedCopySurvivesStep ==
    /\ lastCall = "learn"
    /\ snap.kind = "load"
    /\ eval_net_update_times % target_replace_iter = 0
    /\ eval_net # target_net

\* C5: choose_action returns one action index per row of the batch, each in
\* [0, num_actions), greedy or overridden.
C5_ActionsInRange ==
    lastCall = "choose_action" =>
        /\ Len(result) = Len(lastStates)
        /\ DOMAIN result = 1 .. Len(lastStates)
        /\ \A i \in 1 .. Len(result) : result[i] \in 0 .. (NumActions - 1)

W5_MixedRows ==
    /\ lastCall = "choose_action"
    /\ eval_net_update_times > 0
    /\ Len(result) = MaxBatch
    /\ \E i \in 1 .. Len(result) : result[i] # Greedy(eval_net, lastStates)[i]
    /\ \E i \in 1 .. Len(result) : result[i] = Greedy(eval_net, lastStates)[i]

\* C6: with epsilon = 0 choose_action returns the arg-max action of the eval
\* network for every row, whatever the random draws are.
C6_GreedyAtZero ==
    (lastCall = "choose_action" /\ epsilon = 0) =>
        result = Greedy(eval_net, lastStates)

W6_ZeroEpsilonBatch ==
    /\ lastCall = "choose_action"
    /\ epsilon = 0
    /\ eval_net_update_times > 0
    /\ Len(lastStates) = MaxBatch

\* C7: save_parameters changes no agent state, and load_parameters leaves the
\* eval and the target parameters both equal to the eval parameters of the
\* saving agent at save time, so the greedy choice on every batch is the same.
C7_RoundTrip ==
    [][ /\ lastCall' = "save_parameters" => UNCHANGED agentVars
        /\ lastCall' = "load_parameters" =>
             /\ eval_net' = saved.eval
             /\ target_net' = saved.eval
             /\ \A b \in Batches : Greedy(eval_net', b) = Greedy(saved.eval, b) ]_vars

W7_FreshAgentLoaded ==
    /\ lastCall = "load_parameters"
    /\ ~saved.own
    /\ eval_net_update_times = 0
    /\ epsilon = 0
    /\ eval_net = saved.eval
    /\ target_net = saved.eval

\* C8: choose_action changes no agent state: epsilon, the update counter, both
\* parameter sets and the loss history are the same after the call.
C8_ChooseActionFrame == [][lastCall' = "choose_action" => UNCHANGED agentVars]_vars

W8_ExploredBetweenLearns ==
    /\ lastCall = "choose_action"
    /\ eval_net_update_times = 1
    /\ Len(result) = 1
    /\ result # Greedy(eval_net, lastStates)

\* C9 as stated: a learn call aborted by a batch of the wrong length leaves
\* the whole agent state as it was, target parameters included.
C9_AbortChangesNothing == [][lastCall' = "learn_failed" => UNCHANGED agentVars]_vars

\* C9 as amended: the aborted call leaves epsilon, the update counter, the
\* eval parameters and the loss history as they were; the target parameters
\* are left alone only when the call is entered with the counter not a
\* multiple of the interval, otherwise the target sync has been done and stays.
C9_AbortKeepsSync ==
    [][ lastCall' = "learn_failed" =>
          /\ UNCHANGED <<epsilon, eps_min, eps_dec, eval_net_update_times,
                         eval_net, loss_values>>
          /\ target_net' = IF eval_net_update_times % target_replace_iter = 0
                           THEN eval_net ELSE target_net ]_vars

W9_AbortedAtSync ==
    /\ lastCall = "learn_failed"
    /\ eval_net_update_times = target_replace_iter
    /\ snap.kind = "sync"
    /\ target_net = eval_net

\* C10: when learn keeps being called, epsilon reaches eps_min after finitely
\* many calls and stays there.
C10_Converges == <>[](epsilon = eps_min)

W10_AtFloor ==
    /\ lastCall = "learn"
    /\ eval_net_update_times >= 2
    /\ epsilon = eps_min
    /\ eps_min > 0

====
